---- MODULE Spec2Model ----
(***************************************************************************)
(* Model of the IMAP session engine of imap-server.                        *)
(*                                                                         *)
(*   conn/conn.go     Conn, SetState, handleRequest, writeResponse,        *)
(*                    sendWelcome, assertAuthenticated, assertSelected,    *)
(*                    ReadLine, Start                                      *)
(*   imap server file Server.newConn                                       *)
(*                                                                         *)
(* The command registry (`commands`) and the command handlers live outside  *)
(* these files; they are modelled from section 4.F of the specification   *)
(* and are built only from the Conn methods above.                         *)
(*                                                                         *)
(* A string that the code tests with strings.HasSuffix is a sequence of    *)
(* chunks whose last chunk may be the line ending.  A protocol line read   *)
(* from the transport is the sequence of its space separated words.        *)
(***************************************************************************)
EXTENDS Integers, Sequences, FiniteSets, TLC

(***************************************************************************)
(* Bounds of the model.                                                    *)
(***************************************************************************)
\* number of lines the client puts on the transport in one session
MaxLines == 3

\* number of lines the client sends in the sessions checked for progress
MaxFairLines == 2

\* number of sessions of one server process
MaxSessions == 2

\* number of lines a session of the server process reads
MaxSessionLines == 1

\* number of listeners the server process creates
MaxListens == 2

\* number of chunks of a response text given to writeResponse
MaxTextChunks == 3

\* number of characters of a string given to the sequence-set parser
MaxStringLen == 5

\* the longest literal a client sends
MaxLiteral == 2

\* number of characters of a string given to SplitParams
MaxParamsLen == 5

\* number of entries of a registry given to the dispatcher
MaxRegistry == 3

(***************************************************************************)
(* conn.go: constants.                                                     *)
(***************************************************************************)
StateNew == "New"
StateNotAuthenticated == "NotAuthenticated"
StateAuthenticated == "Authenticated"
StateSelected == "Selected"
StateLoggedOut == "LoggedOut"

connState ==
  {StateNew, StateNotAuthenticated, StateAuthenticated, StateSelected, StateLoggedOut}

ReadOnly == FALSE
ReadWrite == TRUE

lineEnding == "\r\n"

\* Go's nil for the User and SelectedMailbox interface values
nil == "nil"

(***************************************************************************)
(* The client side of the transport.                                       *)
(***************************************************************************)
\* the tag the client puts on its i-th line
ClientTag(i) == <<"a1", "a2", "a3", "a4", "a5", "a6", "a7", "a8">>[i]

\* the commands a client sends, without their tag
ClientCommands ==
  { <<"LOGIN", "user", "pass">>, <<"LOGIN", "user", "wrong">>,
    <<"SELECT", "INBOX">>, <<"SELECT", "nosuch">>, <<"EXAMINE", "INBOX">>,
    <<"CLOSE">>, <<"LOGOUT">>, <<"FETCH", "1">>, <<"STORE", "1">>,
    <<"FOO">> }

\* the lines the client may send as its i-th line: a tagged command, or an
\* empty line, from which no tag can be extracted
ClientLines(i) == { <<ClientTag(i)>> \o cmd : cmd \in ClientCommands } \cup { <<>> }

\* a word cut short: the word without its last character
Cut(word) == SubSeq(word, 1, Len(word) - 1)

\* the beginnings of a line that the scanner can hold when the stream ends
\* inside the line and that differ from the line: the line cut after one of
\* its words, or inside one of its words
Unterminated(line) ==
  { SubSeq(line, 1, k) : k \in 1..(Len(line) - 1) }
    \cup { Append(SubSeq(line, 1, k - 1), Cut(line[k])) :
             k \in { j \in 1..Len(line) : Len(line[j]) > 1 } }

(***************************************************************************)
(* conn.go: Conn and its methods.  A Conn value is a record; `written` is  *)
(* what the session has given to Write, one element per Write call, and    *)
(* `panicked` records that a panic() was executed.                         *)
(***************************************************************************)
NewConn ==
  [ state |-> StateNew,
    User |-> nil,
    SelectedMailbox |-> nil,
    mailboxWritable |-> ReadOnly,
    written |-> <<>>,
    panicked |-> FALSE ]

SetReadOnly(c) == [c EXCEPT !.mailboxWritable = ReadOnly]

SetReadWrite(c) == [c EXCEPT !.mailboxWritable = ReadWrite]

SetState(c, st) == SetReadOnly([c EXCEPT !.state = st])

\* server: newConn = NewConn followed by SetState(StateNew)
newConn == SetState(NewConn, StateNew)

HasSuffix(command, suffix) ==
  Len(command) > 0 /\ command[Len(command)] = suffix

\* variant of writeResponse for sensitivity checks: the line ending is
\* appended without looking at the text
writeResponse_AlwaysAppend(c, seq, command) ==
  LET seq1 == IF seq = "" THEN "*" ELSE seq
  IN  [c EXCEPT !.written = Append(@, <<seq1>> \o command \o <<lineEnding>>)]

\* fmt.Fprintf(c, "%s %s", seq, command): one Write of the tag (or "*"),
\* a space, and the text with its line ending
writeResponse(c, seq, command) ==
  LET seq1 == IF seq = "" THEN "*" ELSE seq
      command1 == IF ~HasSuffix(command, lineEnding)
                    THEN command \o <<lineEnding>>
                    ELSE command
  IN  [c EXCEPT !.written = Append(@, <<seq1>> \o command1)]

\* variant of sendWelcome for sensitivity checks: the transition to
\* NotAuthenticated is forgotten
sendWelcome_NoTransition(c) ==
  IF c.state # StateNew
    THEN [c |-> c, err |-> TRUE]
    ELSE [c |-> writeResponse(c, "", <<"OK IMAP4rev1 Service Ready">>), err |-> FALSE]

\* returns the Conn and whether an error was returned
sendWelcome(c) ==
  IF c.state # StateNew
    THEN [c |-> c, err |-> TRUE]
    ELSE [c |-> SetState(writeResponse(c, "", <<"OK IMAP4rev1 Service Ready">>),
                         StateNotAuthenticated),
          err |-> FALSE]

\* variant of assertAuthenticated for sensitivity checks: the Selected state
\* is not accepted
assertAuthenticated_OnlyAuthenticated(c, seq) ==
  IF c.state # StateAuthenticated
    THEN [c |-> writeResponse(c, seq, <<"BAD not authenticated">>), ok |-> FALSE]
    ELSE IF c.User = nil
      THEN [c |-> [c EXCEPT !.panicked = TRUE], ok |-> FALSE]
      ELSE [c |-> c, ok |-> TRUE]

\* returns the Conn and the boolean result; a panic leaves ok = FALSE and
\* sets panicked
assertAuthenticated(c, seq) ==
  IF c.state # StateAuthenticated /\ c.state # StateSelected
    THEN [c |-> writeResponse(c, seq, <<"BAD not authenticated">>), ok |-> FALSE]
    ELSE IF c.User = nil
      THEN [c |-> [c EXCEPT !.panicked = TRUE], ok |-> FALSE]
      ELSE [c |-> c, ok |-> TRUE]

\* variant of assertSelected for sensitivity checks: the write mode is not
\* checked
assertSelected_NoWriteCheck(c, seq, writable) ==
  LET a == assertAuthenticated(c, seq) IN
  IF ~a.ok
    THEN a
    ELSE IF c.state # StateSelected
      THEN [c |-> writeResponse(c, seq, <<"BAD not selected">>), ok |-> FALSE]
      ELSE IF c.SelectedMailbox = nil
        THEN [c |-> [c EXCEPT !.panicked = TRUE], ok |-> FALSE]
        ELSE [c |-> c, ok |-> TRUE]

\* variant of assertSelected for sensitivity checks: assertAuthenticated is
\* not called first
assertSelected_NoAuthCheck(c, seq, writable) ==
  IF c.state # StateSelected
    THEN [c |-> writeResponse(c, seq, <<"BAD not selected">>), ok |-> FALSE]
    ELSE IF c.SelectedMailbox = nil
      THEN [c |-> [c EXCEPT !.panicked = TRUE], ok |-> FALSE]
      ELSE IF writable = ReadWrite /\ c.mailboxWritable # ReadWrite
        THEN [c |-> writeResponse(c, seq, <<"NO Selected mailbox is READONLY">>),
              ok |-> FALSE]
        ELSE [c |-> c, ok |-> TRUE]

assertSelected(c, seq, writable) ==
  LET a == assertAuthenticated(c, seq) IN
  IF ~a.ok
    THEN a
    ELSE IF c.state # StateSelected
      THEN [c |-> writeResponse(c, seq, <<"BAD not selected">>), ok |-> FALSE]
      ELSE IF c.SelectedMailbox = nil
        THEN [c |-> [c EXCEPT !.panicked = TRUE], ok |-> FALSE]
        ELSE IF writable = ReadWrite /\ c.mailboxWritable # ReadWrite
          THEN [c |-> writeResponse(c, seq, <<"NO Selected mailbox is READONLY">>),
                ok |-> FALSE]
          ELSE [c |-> c, ok |-> TRUE]

(***************************************************************************)
(* The mail store, seen through the capability set of section 6 of the     *)
(* specification: one account and one mailbox.                             *)
(***************************************************************************)
Authenticate(username, password) ==
  IF username = "user" /\ password = "pass" THEN "user" ELSE nil

MailboxByName(user, name) ==
  IF name = "INBOX" THEN "INBOX" ELSE nil

(***************************************************************************)
(* The command handlers, section 4.F of the specification.  A handler gets *)
(* the captures of its pattern (matches[1] is the tag, the arguments       *)
(* follow) and the Conn, and returns the Conn.  A handler stops at a       *)
(* failed precondition gate, and at a panic.                               *)
(***************************************************************************)
cmdLogin(matches, c) ==
  IF c.state # StateNotAuthenticated
    THEN writeResponse(c, matches[1], <<"BAD already authenticated">>)
    ELSE LET user == Authenticate(matches[3], matches[4]) IN
         IF user = nil
           THEN writeResponse(c, matches[1], <<"NO authentication failed">>)
           ELSE writeResponse(
                  SetState([c EXCEPT !.User = user], StateAuthenticated),
                  matches[1], <<"OK LOGIN completed">>)

\* LoggedOut carries neither a user nor a selected mailbox (section 3,
\* invariants 1 and 2)
cmdLogout(matches, c) ==
  LET c1 == writeResponse(c, "", <<"BYE IMAP4rev1 server logging out">>)
      c2 == writeResponse(c1, matches[1], <<"OK LOGOUT completed">>)
  IN  SetState([c2 EXCEPT !.User = nil, !.SelectedMailbox = nil], StateLoggedOut)

\* the selected-mailbox status block
MailboxStatus(c) ==
  LET c1 == writeResponse(c, "", <<"1 EXISTS">>)
      c2 == writeResponse(c1, "", <<"0 RECENT">>)
      c3 == writeResponse(c2, "", <<"OK [UIDVALIDITY 1]">>)
  IN  writeResponse(c3, "", <<"FLAGS ()">>)

\* SELECT (mode = ReadWrite) and EXAMINE (mode = ReadOnly).  The mode is set
\* after the transition, because SetState resets it.
selectMailbox(matches, c, mode) ==
  LET a == assertAuthenticated(c, matches[1]) IN
  IF ~a.ok
    THEN a.c
    ELSE LET mbox == MailboxByName(c.User, matches[3]) IN
         IF mbox = nil
           THEN writeResponse(c, matches[1], <<"NO no such mailbox">>)
           ELSE LET c1 == MailboxStatus(c)
                    c2 == SetState([c1 EXCEPT !.SelectedMailbox = mbox], StateSelected)
                IN  IF mode = ReadWrite
                      THEN writeResponse(SetReadWrite(c2), matches[1],
                                         <<"OK [READ-WRITE] SELECT completed">>)
                      ELSE writeResponse(SetReadOnly(c2), matches[1],
                                         <<"OK [READ-ONLY] EXAMINE completed">>)

cmdSelect(matches, c) == selectMailbox(matches, c, ReadWrite)

cmdExamine(matches, c) == selectMailbox(matches, c, ReadOnly)

cmdClose(matches, c) ==
  LET a == assertSelected(c, matches[1], ReadOnly) IN
  IF ~a.ok
    THEN a.c
    ELSE writeResponse(
           SetState([c EXCEPT !.SelectedMailbox = nil], StateAuthenticated),
           matches[1], <<"OK CLOSE completed">>)

cmdFetch(matches, c) ==
  LET a == assertSelected(c, matches[1], ReadOnly) IN
  IF ~a.ok
    THEN a.c
    ELSE writeResponse(writeResponse(c, "", <<"1 FETCH (UID 1 FLAGS ())">>),
                       matches[1], <<"OK FETCH completed">>)

cmdStore(matches, c) ==
  LET a == assertSelected(c, matches[1], ReadWrite) IN
  IF ~a.ok
    THEN a.c
    ELSE writeResponse(c, matches[1], <<"OK STORE completed">>)

(***************************************************************************)
(* The command registry, section 4.C of the specification: patterns in     *)
(* registration order.  A pattern is anchored, captures the tag and then   *)
(* the arguments of one command word.                                      *)
(***************************************************************************)
commands ==
  << [match |-> [verb |-> "LOGIN", nargs |-> 2], handler |-> "cmdLogin"],
     [match |-> [verb |-> "LOGOUT", nargs |-> 0], handler |-> "cmdLogout"],
     [match |-> [verb |-> "SELECT", nargs |-> 1], handler |-> "cmdSelect"],
     [match |-> [verb |-> "EXAMINE", nargs |-> 1], handler |-> "cmdExamine"],
     [match |-> [verb |-> "CLOSE", nargs |-> 0], handler |-> "cmdClose"],
     [match |-> [verb |-> "FETCH", nargs |-> 1], handler |-> "cmdFetch"],
     [match |-> [verb |-> "STORE", nargs |-> 1], handler |-> "cmdStore"] >>

\* regexp.FindStringSubmatch: the captures (tag, command word, arguments),
\* or the empty sequence when the line does not match
FindStringSubmatch(match, req) ==
  IF Len(req) = match.nargs + 2 /\ req[2] = match.verb THEN req ELSE <<>>

\* cmd.handler(matches, c)
CallHandler(handler, matches, c) ==
  CASE handler = "cmdLogin" -> cmdLogin(matches, c)
    [] handler = "cmdLogout" -> cmdLogout(matches, c)
    [] handler = "cmdSelect" -> cmdSelect(matches, c)
    [] handler = "cmdExamine" -> cmdExamine(matches, c)
    [] handler = "cmdClose" -> cmdClose(matches, c)
    [] handler = "cmdFetch" -> cmdFetch(matches, c)
    [] handler = "cmdStore" -> cmdStore(matches, c)

(***************************************************************************)
(* conn.go: the dispatcher.                                                *)
(***************************************************************************)
RECURSIVE rangeCommands(_, _, _, _)
\* the loop over the registry cmds from entry i on.  Besides the Conn it
\* returns the handler calls it made, each with the captures it passed
rangeCommands(cmds, i, c, req) ==
  IF i > Len(cmds)
    THEN [c |-> writeResponse(c, "", <<"BAD Command not understood">>), calls |-> <<>>]
    ELSE LET matches == FindStringSubmatch(cmds[i].match, req) IN
         IF Len(matches) > 0
           THEN [c |-> CallHandler(cmds[i].handler, matches, c),
                 calls |-> << [handler |-> cmds[i].handler, matches |-> matches] >>]
           ELSE rangeCommands(cmds, i + 1, c, req)

\* variant of the dispatcher for sensitivity checks: the last matching
\* entry is served
handleRequestOver_LastMatch(cmds, c, req) ==
  LET hits == { i \in 1..Len(cmds) : Len(FindStringSubmatch(cmds[i].match, req)) > 0 }
  IN  IF hits # {}
        THEN LET last == CHOOSE i \in hits : \A j \in hits : i >= j
                 matches == FindStringSubmatch(cmds[last].match, req)
             IN  [c |-> CallHandler(cmds[last].handler, matches, c),
                  calls |-> << [handler |-> cmds[last].handler, matches |-> matches] >>]
        ELSE [c |-> writeResponse(c, "", <<"BAD Command not understood">>), calls |-> <<>>]

\* handleRequest over the registry cmds
handleRequestOver(cmds, c, req) == rangeCommands(cmds, 1, c, req)

handleRequest(c, req) == handleRequestOver(commands, c, req).c

(***************************************************************************)
(* The state of one session.                                               *)
(*   conn       the Conn                                                   *)
(*   pc         where Start is: "start" before the loop, "ReadLine" while  *)
(*              it is blocked in ReadLine, "returned" after it returned,   *)
(*              "panic" after a panic                                      *)
(*   sent       the lines the client has put on the transport and that     *)
(*              the server gets if it goes on reading; the last one is     *)
(*              the beginning of a line when the stream ends inside a line *)
(*   closed     the client has closed the transport                        *)
(*   nread      the number of lines ReadLine has returned                  *)
(*   responses  for each line dispatched, what handleRequest wrote for it  *)
(*   rwcClosed  Conn.Close was called: the server has closed its end of    *)
(*              the transport, every later Read and Write of Rwc fails.    *)
(*              Of the lines sent, those the scanner has not taken from    *)
(*              the transport by then are lost                             *)
(* The field written of the Conn holds what was given to Conn.Write, which *)
(* copies it to the transcript and hands it to Rwc.                        *)
(***************************************************************************)
VARIABLES conn, pc, sent, closed, nread, responses, rwcClosed

closeVars == <<rwcClosed>>

sessionVars == <<conn, pc, sent, closed, nread, responses, closeVars>>

\* Conn.Close was not called
RwcOpen == rwcClosed = FALSE

(***************************************************************************)
(* The state of the server process (Server, its accept loop and the        *)
(* sessions it runs as goroutines).                                        *)
(*   listener   Server.listener: NoListener (nil) or the id of a listener  *)
(*   openLn     the listeners that are open                                *)
(*   nListen    the number of listeners net.Listen has created             *)
(*   listening  the number of calls of Listen that have found the field    *)
(*              nil and have not returned yet                              *)
(*   servePc    where Serve is: "idle" before the call, "loop" at the top  *)
(*              of its loop, "Accept" while blocked in Accept, "returned", *)
(*              "panic"                                                    *)
(*   serveLn    the listener Serve last read from Server.listener          *)
(*   deferLn    the listener bound by the defer statement of Serve         *)
(*   closePc    where Close is: "idle", or "closing" between the Close of  *)
(*              the listener and the assignment of nil                     *)
(*   ret        the last call of Listen, Serve or Close that returned, and *)
(*              whether it returned an error                               *)
(*   sconn, spc, sread   for each session slot its Conn, the position of   *)
(*              its Start ("none" when the slot is unused) and the number  *)
(*              of lines it has read                                       *)
(*   crashed    a goroutine has panicked: the process is gone              *)
(***************************************************************************)
VARIABLES listener, openLn, nListen, listening, servePc, serveLn, deferLn, closePc,
          ret, sconn, spc, sread, crashed

serverVars ==
  <<listener, openLn, nListen, listening, servePc, serveLn, deferLn, closePc, ret,
    sconn, spc, sread, crashed>>

(***************************************************************************)
(* The argument and the result of a function that is applied on its own.   *)
(***************************************************************************)
VARIABLES arg, result

fnVars == <<arg, result>>

(***************************************************************************)
(* The reading side of one connection, octet by octet: rwc holds the       *)
(* octets of the client that no Read has returned yet, scanBuf the octets  *)
(* RwcScanner has read and not yet returned as a line, lines the lines     *)
(* ReadLine returned, data and receivedLength the buffer and the counter   *)
(* of ReadFixedLength, rerr the error it returned, rpc the call in         *)
(* progress.                                                               *)
(***************************************************************************)
VARIABLES rwc, scanBuf, rpc, lines, data, receivedLength, rerr

readerVars == <<rwc, scanBuf, rpc, lines, data, receivedLength, rerr>>

vars == <<sessionVars, serverVars, fnVars, readerVars>>

\* no listener: the nil value of Server.listener
NoListener == 0

\* the session slots of the server process
Sessions == 1..MaxSessions

\* NewServer: no listener, nothing running
ServerInit ==
  /\ listener = NoListener
  /\ openLn = {}
  /\ nListen = 0
  /\ listening = 0
  /\ servePc = "idle"
  /\ serveLn = NoListener
  /\ deferLn = NoListener
  /\ closePc = "idle"
  /\ ret = [op |-> "none", err |-> FALSE]
  /\ sconn = [s \in Sessions |-> NewConn]
  /\ spc = [s \in Sessions |-> "none"]
  /\ sread = [s \in Sessions |-> 0]
  /\ crashed = FALSE

\* no function is being applied
FnIdle == arg = <<>> /\ result = <<>>

\* nothing is being read octet by octet
ReaderIdle ==
  /\ rwc = <<>>
  /\ scanBuf = <<>>
  /\ rpc = "idle"
  /\ lines = <<>>
  /\ data = <<>>
  /\ receivedLength = 0
  /\ rerr = nil

\* one session, as Serve starts it
Init ==
  /\ conn = newConn
  /\ pc = "start"
  /\ sent = <<>>
  /\ closed = FALSE
  /\ nread = 0
  /\ responses = <<>>
  /\ RwcOpen
  /\ ServerInit
  /\ FnIdle
  /\ ReaderIdle

\* variant of the loop condition for sensitivity checks: the loop does not
\* stop at LoggedOut
StartLoopCondition_Forever(c) == c.state \in connState

\* conn.go: the loop condition of Start
StartLoopCondition(c) == c.state # StateLoggedOut

\* conn.go: Start from the loop condition up to the call of ReadLine
StartLoopTop(c) ==
  IF ~StartLoopCondition(c)
    THEN [c |-> c, pc |-> "returned"]
    ELSE [c |-> IF c.state = StateNew THEN sendWelcome(c).c ELSE c,
          pc |-> "ReadLine"]

\* Start is called on the new connection and runs up to its first ReadLine
StartBegin ==
  /\ pc = "start"
  /\ conn' = StartLoopTop(conn).c
  /\ pc' = StartLoopTop(conn).pc
  /\ UNCHANGED <<sent, closed, nread, responses>>
  /\ UNCHANGED <<closeVars, serverVars, fnVars, readerVars>>

\* ReadLine has a line to return
LineToRead == nread < Len(sent)

\* ReadLine has no line to return and the Read of the scanner fails: the
\* client has closed the transport, or the server has closed its end
EndOfStream == (closed \/ rwcClosed) /\ nread = Len(sent)

\* ReadLine returns a line, or at the end of the stream the unterminated
\* line the scanner holds: it is dispatched, and the loop runs up to the next
\* ReadLine or to the return of Start
StartReadLine ==
  /\ pc = "ReadLine"
  /\ LineToRead
  /\ LET req == sent[nread + 1]
         c1 == handleRequest(conn, req)
     IN  /\ nread' = nread + 1
         /\ responses' = Append(responses,
                            SubSeq(c1.written, Len(conn.written) + 1, Len(c1.written)))
         /\ IF c1.panicked
              THEN conn' = c1 /\ pc' = "panic"
              ELSE conn' = StartLoopTop(c1).c /\ pc' = StartLoopTop(c1).pc
  /\ UNCHANGED <<sent, closed>>
  /\ UNCHANGED <<closeVars, serverVars, fnVars, readerVars>>

\* variant of the end-of-stream branch for sensitivity checks: the loop goes
\* back to ReadLine instead of leaving
StartReadLineEOF_Retry ==
  /\ pc = "ReadLine"
  /\ EndOfStream
  /\ UNCHANGED <<conn, pc, sent, closed, nread, responses>>
  /\ UNCHANGED <<closeVars, serverVars, fnVars, readerVars>>

\* ReadLine returns !ok: the transport is closed and holds no further line
StartReadLineEOF ==
  /\ pc = "ReadLine"
  /\ EndOfStream
  /\ conn' = [conn EXCEPT !.state = StateLoggedOut]
  /\ pc' = "returned"
  /\ UNCHANGED <<sent, closed, nread, responses>>
  /\ UNCHANGED <<closeVars, serverVars, fnVars, readerVars>>

\* the client writes one more line, the n-th at most
ClientSendUpTo(n) ==
  /\ ~closed
  /\ ~rwcClosed
  /\ Len(sent) < n
  /\ \E line \in ClientLines(Len(sent) + 1) : sent' = Append(sent, line)
  /\ UNCHANGED <<conn, pc, closed, nread, responses>>
  /\ UNCHANGED <<closeVars, serverVars, fnVars, readerVars>>

ClientSend == ClientSendUpTo(MaxLines)

\* the client closes the transport, after a whole line or after it has
\* written the beginning of one more line, the n-th at most
ClientCloseUpTo(n) ==
  /\ ~closed
  /\ closed' = TRUE
  /\ \/ UNCHANGED sent
     \/ /\ ~rwcClosed
        /\ Len(sent) < n
        /\ \E line \in ClientLines(Len(sent) + 1) : \E p \in Unterminated(line) :
             sent' = Append(sent, p)
  /\ UNCHANGED <<conn, pc, nread, responses>>
  /\ UNCHANGED <<closeVars, serverVars, fnVars, readerVars>>

ClientClose == ClientCloseUpTo(MaxLines)

\* conn.go: Close, called by another goroutine of the server while the
\* session runs.  The scanner has taken from the transport the lines it has
\* returned and, when Start is in ReadLine, some of the lines that follow
\* and the beginning of the one after them: these it still returns, the rest
\* is lost
ConnClose ==
  /\ ~rwcClosed
  /\ rwcClosed' = TRUE
  /\ \E n \in nread..Len(sent) :
       /\ pc # "ReadLine" => n = nread
       /\ \/ sent' = SubSeq(sent, 1, n)
          \/ /\ pc = "ReadLine"
             /\ n < Len(sent)
             /\ \E p \in Unterminated(sent[n + 1]) : sent' = Append(SubSeq(sent, 1, n), p)
  /\ UNCHANGED <<conn, pc, closed, nread, responses>>
  /\ UNCHANGED <<serverVars, fnVars, readerVars>>

Next ==
  \/ StartBegin
  \/ StartReadLine
  \/ StartReadLineEOF
  \/ ClientSend
  \/ ClientClose
  \/ ConnClose

Spec == Init /\ [][Next]_vars

\* The session under the scheduler: Start runs in its own goroutine, which
\* is kept running, so each step of Start that can be taken is taken.  The
\* client is as in Spec, with its own bound on the number of lines.
FairClientSend == ClientSendUpTo(MaxFairLines)

FairClientClose == ClientCloseUpTo(MaxFairLines)

FairNext ==
  \/ StartBegin
  \/ StartReadLine
  \/ StartReadLineEOF
  \/ FairClientSend
  \/ FairClientClose
  \/ ConnClose

FairSpec ==
  /\ Init
  /\ [][FairNext]_vars
  /\ WF_vars(StartBegin)
  /\ WF_vars(StartReadLine)
  /\ WF_vars(StartReadLineEOF)

TypeOK ==
  /\ conn.state \in connState
  /\ conn.mailboxWritable \in BOOLEAN
  /\ pc \in {"start", "ReadLine", "returned", "panic"}
  /\ nread \in 0..Len(sent)
  /\ Len(sent) <= MaxLines
  /\ Len(responses) = nread
  /\ rwcClosed \in BOOLEAN

(***************************************************************************)
(* Vocabulary of the properties.                                           *)
(***************************************************************************)
Tags == { ClientTag(i) : i \in 1..MaxLines }

\* the tag of a line: its first word; the empty line has none
ExtractTag(line) == IF Len(line) >= 1 THEN line[1] ELSE ""

\* the command word of a line
Verb(line) == IF Len(line) >= 2 THEN line[2] ELSE ""

\* the line matches a registered pattern
Registered(line) ==
  \E i \in 1..Len(commands) : Len(FindStringSubmatch(commands[i].match, line)) > 0

\* a response line as it appears on the transport
Line(tag, text) == <<tag, text, lineEnding>>

GreetingLine == Line("*", "OK IMAP4rev1 Service Ready")

RECURSIVE Flatten(_)
Flatten(ss) == IF ss = <<>> THEN <<>> ELSE Head(ss) \o Flatten(Tail(ss))

CountOf(x, seq) == Cardinality({ i \in 1..Len(seq) : seq[i] = x })

\* the step dispatches a line with command word v
Dispatches(v) == nread' = nread + 1 /\ Verb(sent[nread']) = v

\* the tagged response that ended the dispatch of the i-th line
Completion(resp) == resp[Len(resp)]

(***************************************************************************)
(* C1: in every reachable state mailbox_mode = ReadWrite implies state =   *)
(* Selected, and every change of the session state, the change to          *)
(* LoggedOut at transport EOF included, leaves the mode ReadOnly unless    *)
(* the new state is Selected by SELECT.                                    *)
(***************************************************************************)
C1_WriteModeOnlyWhileSelected ==
  /\ [](conn.mailboxWritable = ReadWrite => conn.state = StateSelected)
  /\ [][conn'.state # conn.state =>
          \/ conn'.mailboxWritable = ReadOnly
          \/ conn'.state = StateSelected /\ Dispatches("SELECT")]_vars

(***************************************************************************)
(* C2: in every reachable state the user is present if and only if the     *)
(* state is Authenticated or Selected; in particular it is absent once the *)
(* session is LoggedOut, by LOGOUT or by transport EOF.                    *)
(***************************************************************************)
C2_UserIffAuthenticated ==
  (conn.User # nil) <=> (conn.state \in {StateAuthenticated, StateSelected})

(***************************************************************************)
(* C3: in every reachable state the selected mailbox is present if and     *)
(* only if the state is Selected; in particular it is absent once the      *)
(* session is LoggedOut, by LOGOUT or by transport EOF.                    *)
(***************************************************************************)
C3_MailboxIffSelected ==
  (conn.SelectedMailbox # nil) <=> (conn.state = StateSelected)

(***************************************************************************)
(* C4: LoggedOut is terminal for the read-dispatch loop: Start has         *)
(* returned, and from then on no line is read, no command is dispatched    *)
(* and no response is written, whatever is pending on the transport.       *)
(***************************************************************************)
C4_LoggedOutIsTerminal ==
  /\ [](conn.state = StateLoggedOut => pc = "returned")
  /\ [][conn.state = StateLoggedOut =>
          /\ conn' = conn
          /\ pc' = pc
          /\ nread' = nread
          /\ responses' = responses]_vars

\* LOGOUT was dispatched while a further line was pending on the transport
C4_Witness ==
  /\ conn.state = StateLoggedOut
  /\ nread >= 1
  /\ Verb(sent[nread]) = "LOGOUT"
  /\ nread < Len(sent)

(***************************************************************************)
(* C5: the greeting is the first response written, it is written before    *)
(* any line is read, it is written exactly once, and the state is          *)
(* NotAuthenticated right after it; sendWelcome in a state other than New  *)
(* writes nothing, keeps the state and returns an error.                   *)
(***************************************************************************)
C5_GreetingOnceAndFirst ==
  /\ [](/\ Len(conn.written) > 0 => conn.written[1] = GreetingLine
        /\ nread > 0 => Len(conn.written) > 0
        /\ CountOf(GreetingLine, conn.written) = (IF pc = "start" THEN 0 ELSE 1)
        /\ conn.state # StateNew => sendWelcome(conn) = [c |-> conn, err |-> TRUE])
  /\ [][conn.written = <<>> /\ conn'.written # <<>> =>
          /\ conn'.written = <<GreetingLine>>
          /\ conn'.state = StateNotAuthenticated
          /\ nread' = 0]_vars

\* the greeting was written, and a command was dispatched after it
C5_Witness ==
  /\ pc = "ReadLine"
  /\ nread >= 1
  /\ conn.written[1] = GreetingLine
  /\ Len(conn.written) >= 2

(***************************************************************************)
(* C6: a line that matches no registered pattern is answered by            *)
(* `<tag> BAD Command not understood` with the tag of the line when the    *)
(* line has one, by an untagged BAD only when it has none, and the state   *)
(* of the session is unchanged.                                            *)
(***************************************************************************)
C6_UnknownCommandTaggedBad ==
  /\ [](\A i \in 1..nread :
          ~Registered(sent[i]) =>
            responses[i] =
              << Line(IF ExtractTag(sent[i]) # "" THEN ExtractTag(sent[i]) ELSE "*",
                      "BAD Command not understood") >>)
  /\ [][nread' = nread + 1 /\ ~Registered(sent[nread']) =>
          conn'.state = conn.state]_vars

(***************************************************************************)
(* C7: for every dispatched command line exactly one tagged response is   *)
(* written, it carries the tag of the line, the untagged responses of the  *)
(* command precede it, and all of them are written before the next line    *)
(* is read: the output is the greeting followed by the responses of the    *)
(* lines in the order they were read.                                      *)
(***************************************************************************)
C7_OneTaggedResponsePerCommand ==
  /\ \A i \in 1..nread :
       ExtractTag(sent[i]) # "" =>
         /\ Len(responses[i]) >= 1
         /\ Completion(responses[i])[1] = ExtractTag(sent[i])
         /\ \A j \in 1..(Len(responses[i]) - 1) : responses[i][j][1] = "*"
  /\ pc # "start" => conn.written = <<GreetingLine>> \o Flatten(responses)

(***************************************************************************)
(* C8: a successful SELECT leaves the session Selected with mode           *)
(* ReadWrite, so that assertSelected with need_write passes; a successful  *)
(* EXAMINE, from Authenticated or from Selected read-write, leaves it      *)
(* Selected with mode ReadOnly, so that assertSelected with need_write     *)
(* writes `<tag> NO Selected mailbox is READONLY` and fails.               *)
(***************************************************************************)
C8_SelectWritableExamineReadOnly ==
  [][/\ Dispatches("SELECT")
          /\ Completion(responses'[nread'])[2] = "OK [READ-WRITE] SELECT completed"
        => /\ conn'.state = StateSelected
           /\ conn'.mailboxWritable = ReadWrite
           /\ \A t \in Tags :
                assertSelected(conn', t, ReadWrite) = [c |-> conn', ok |-> TRUE]
     /\ Dispatches("EXAMINE")
          /\ Completion(responses'[nread'])[2] = "OK [READ-ONLY] EXAMINE completed"
        => /\ conn'.state = StateSelected
           /\ conn'.mailboxWritable = ReadOnly
           /\ \A t \in Tags :
                /\ ~assertSelected(conn', t, ReadWrite).ok
                /\ assertSelected(conn', t, ReadWrite).c =
                     [conn' EXCEPT !.written =
                        Append(@, Line(t, "NO Selected mailbox is READONLY"))]]_vars

\* EXAMINE succeeded on a session that had a mailbox selected read-write
C8_Witness ==
  /\ nread >= 2
  /\ Completion(responses[nread - 1])[2] = "OK [READ-WRITE] SELECT completed"
  /\ Completion(responses[nread])[2] = "OK [READ-ONLY] EXAMINE completed"
  /\ pc = "ReadLine"
  /\ conn.state = StateSelected

(***************************************************************************)
(* C9: assertSelected(tag, need_write) returns true if and only if the     *)
(* state is Selected and need_write is false or the mode is ReadWrite; on  *)
(* failure it writes exactly one tagged response, that of the first        *)
(* failing check (not authenticated, not selected, read-only), and it      *)
(* changes nothing else of the session.                                    *)
(***************************************************************************)
C9_AssertSelectedGate ==
  \A t \in Tags : \A w \in {ReadOnly, ReadWrite} :
    LET r == assertSelected(conn, t, w)
        failure ==
          IF conn.state \notin {StateAuthenticated, StateSelected}
            THEN "BAD not authenticated"
            ELSE IF conn.state # StateSelected
              THEN "BAD not selected"
              ELSE "NO Selected mailbox is READONLY"
    IN  /\ r.ok <=> /\ conn.state = StateSelected
                    /\ (w = ReadOnly \/ conn.mailboxWritable = ReadWrite)
        /\ r.ok => r.c = conn
        /\ ~r.ok => r.c = [conn EXCEPT !.written = Append(@, Line(t, failure))]

\* STORE was stopped by the read-only check on a mailbox opened by EXAMINE
C9_Witness ==
  /\ nread = 3
  /\ Verb(sent[2]) = "EXAMINE"
  /\ Verb(sent[3]) = "STORE"
  /\ responses[3] = << Line(ClientTag(3), "NO Selected mailbox is READONLY") >>
  /\ conn.state = StateSelected

(***************************************************************************)
(* C10: assertAuthenticated(tag) returns true exactly when the state is    *)
(* Authenticated or Selected, and then writes nothing; otherwise it writes *)
(* the one response `<tag> BAD not authenticated` and returns false; the   *)
(* session is unchanged in both cases, and the panic for an absent user    *)
(* is never reached.                                                       *)
(***************************************************************************)
C10_AssertAuthenticatedGate ==
  /\ \A t \in Tags :
       LET r == assertAuthenticated(conn, t) IN
         /\ r.ok <=> conn.state \in {StateAuthenticated, StateSelected}
         /\ r.ok => r.c = conn
         /\ ~r.ok => r.c = [conn EXCEPT !.written =
                              Append(@, Line(t, "BAD not authenticated"))]
  /\ ~conn.panicked
  /\ pc # "panic"

\* the gate has stopped one handler and let another one pass
C10_Witness ==
  /\ nread = 3
  /\ Verb(sent[1]) = "SELECT"
  /\ responses[1] = << Line(ClientTag(1), "BAD not authenticated") >>
  /\ Verb(sent[3]) = "SELECT"
  /\ Completion(responses[3]) = Line(ClientTag(3), "OK [READ-WRITE] SELECT completed")

(***************************************************************************)
(* C11: whatever the session state, once the transport is at end of        *)
(* stream (or fails) the session eventually is LoggedOut and Start has     *)
(* returned: the lines still pending are dispatched, then ReadLine         *)
(* returns !ok and the loop is left.                                       *)
(***************************************************************************)
C11_ClosedTransportEndsSession ==
  (closed \/ rwcClosed) ~> (conn.state = StateLoggedOut /\ pc = "returned")

\* Start returned because ReadLine met the end of the stream, in a session
\* that was authenticated
C11_Witness ==
  /\ closed
  /\ pc = "returned"
  /\ conn.state = StateLoggedOut
  /\ conn.User # nil
  /\ nread = Len(sent)

(***************************************************************************)
(* The server process: Listen, Serve and Close of Server, called from      *)
(* different goroutines, and the sessions.  Server.listener is read and    *)
(* written without synchronisation.  A panic in any goroutine is not       *)
(* recovered anywhere and ends the process.                                *)
(***************************************************************************)
\* the lines a client of the server process sends
ServerLines(i) ==
  { <<ClientTag(i)>> \o cmd :
      cmd \in { <<"LOGIN", "user", "pass">>, <<"SELECT", "INBOX">>, <<"LOGOUT">> } }

\* the states a test injects into the Conn of NewTestConnection before it
\* starts the session
InjectedConns ==
  { SetState(NewConn, StateAuthenticated),
    SetState([NewConn EXCEPT !.User = "user"], StateAuthenticated) }

sessionFrame == <<sessionVars, fnVars, readerVars>>

\* Listen is called: the test of s.listener.  A call that finds a listener
\* returns the error; a call that finds none goes on to net.Listen, with no
\* lock held, so that several calls can be there at once
ListenBegin ==
  /\ ~crashed
  /\ IF listener # NoListener
       THEN /\ ret' = [op |-> "Listen", err |-> TRUE]
            /\ UNCHANGED listening
       ELSE /\ nListen + listening < MaxListens
            /\ listening' = listening + 1
            /\ UNCHANGED ret
  /\ UNCHANGED <<listener, openLn, nListen, servePc, serveLn, deferLn, closePc, sconn, spc,
                 sread, crashed>>
  /\ UNCHANGED sessionFrame

\* net.Listen returns in a call of Listen: with a listener, which is stored
\* in s.listener whatever the field holds by now, or with an error
ListenEnd ==
  /\ ~crashed
  /\ listening > 0
  /\ listening' = listening - 1
  /\ \/ /\ listener' = nListen + 1
        /\ openLn' = openLn \cup {nListen + 1}
        /\ nListen' = nListen + 1
        /\ ret' = [op |-> "Listen", err |-> FALSE]
     \/ /\ ret' = [op |-> "Listen", err |-> TRUE]
        /\ UNCHANGED <<listener, openLn, nListen>>
  /\ UNCHANGED <<servePc, serveLn, deferLn, closePc, sconn, spc, sread, crashed>>
  /\ UNCHANGED sessionFrame

\* Serve is called: the defer statement binds the listener
ServeBegin ==
  /\ ~crashed
  /\ servePc = "idle"
  /\ IF listener = NoListener
       THEN servePc' = "panic" /\ crashed' = TRUE /\ UNCHANGED <<serveLn, deferLn>>
       ELSE /\ servePc' = "loop"
            /\ deferLn' = listener
            /\ serveLn' = listener
            /\ UNCHANGED crashed
  /\ UNCHANGED <<listener, openLn, nListen, listening, closePc, ret, sconn, spc, sread>>
  /\ UNCHANGED sessionFrame

\* Serve calls s.listener.Accept(): the unsynchronised read of the field
\* gives its present value or the value Serve has read before
ServeCallAccept ==
  /\ ~crashed
  /\ servePc = "loop"
  /\ \E ln \in {listener, serveLn} :
       IF ln = NoListener
         THEN servePc' = "panic" /\ crashed' = TRUE /\ UNCHANGED serveLn
         ELSE servePc' = "Accept" /\ serveLn' = ln /\ UNCHANGED crashed
  /\ UNCHANGED <<listener, openLn, nListen, listening, deferLn, closePc, ret, sconn, spc, sread>>
  /\ UNCHANGED sessionFrame

\* Accept returns a connection: newConn, go c.Start()
ServeAccept ==
  /\ ~crashed
  /\ servePc = "Accept"
  /\ serveLn \in openLn
  /\ \E s \in Sessions :
       /\ spc[s] = "none"
       /\ \A t \in Sessions : t < s => spc[t] # "none"
       /\ sconn' = [sconn EXCEPT ![s] = newConn]
       /\ spc' = [spc EXCEPT ![s] = "start"]
  /\ servePc' = "loop"
  /\ UNCHANGED <<listener, openLn, nListen, listening, serveLn, deferLn, closePc, ret, sread, crashed>>
  /\ UNCHANGED sessionFrame

\* Accept returns an error, because its listener is closed: Serve returns
\* the error, and the deferred Close runs
ServeAcceptError ==
  /\ ~crashed
  /\ servePc = "Accept"
  /\ serveLn \notin openLn
  /\ servePc' = "returned"
  /\ openLn' = openLn \ {deferLn}
  /\ ret' = [op |-> "Serve", err |-> TRUE]
  /\ UNCHANGED <<listener, nListen, listening, serveLn, deferLn, closePc, sconn, spc, sread, crashed>>
  /\ UNCHANGED sessionFrame

\* Close up to s.listener.Close()
CloseBegin ==
  /\ ~crashed
  /\ closePc = "idle"
  /\ IF listener = NoListener \/ listener \notin openLn
       THEN /\ ret' = [op |-> "Close", err |-> TRUE]
            /\ UNCHANGED <<openLn, closePc>>
       ELSE /\ openLn' = openLn \ {listener}
            /\ closePc' = "closing"
            /\ UNCHANGED ret
  /\ UNCHANGED <<listener, nListen, listening, servePc, serveLn, deferLn, sconn, spc, sread, crashed>>
  /\ UNCHANGED sessionFrame

\* Close from s.listener = nil
CloseEnd ==
  /\ ~crashed
  /\ closePc = "closing"
  /\ listener' = NoListener
  /\ closePc' = "idle"
  /\ ret' = [op |-> "Close", err |-> FALSE]
  /\ UNCHANGED <<openLn, nListen, listening, servePc, serveLn, deferLn, sconn, spc, sread, crashed>>
  /\ UNCHANGED sessionFrame

serverFrame == <<listener, openLn, nListen, listening, servePc, serveLn, deferLn, closePc, ret>>

\* NewTestConnection, then the test injects a state into the Conn and starts
\* the session itself.  NewTestConnection makes a Server, which is the Server
\* of the model in the state NewServer leaves it in; its Listen binds the
\* test address, which no open listener may hold; it dials the listener and
\* accepts the connection
TestStart ==
  /\ ~crashed
  /\ listener = NoListener /\ listening = 0 /\ servePc = "idle" /\ closePc = "idle"
  /\ openLn = {}
  /\ nListen < MaxListens
  /\ listener' = nListen + 1
  /\ openLn' = openLn \cup {nListen + 1}
  /\ nListen' = nListen + 1
  /\ ret' = [op |-> "NewTestConnection", err |-> FALSE]
  /\ \E s \in Sessions : \E c \in InjectedConns :
       /\ spc[s] = "none"
       /\ \A t \in Sessions : t < s => spc[t] # "none"
       /\ sconn' = [sconn EXCEPT ![s] = c]
       /\ spc' = [spc EXCEPT ![s] = "start"]
  /\ UNCHANGED <<listening, servePc, serveLn, deferLn, closePc, sread, crashed>>
  /\ UNCHANGED sessionFrame

\* NewTestConnection returns an error and no Conn.  The Server it has made
\* is dropped and the Server of the model is not touched.  Listen fails, as
\* it does whenever a listener holds the test address, or Listen succeeds
\* and Dial or Accept fails, which leaves the new listener open with no
\* Server to close it
TestStartError ==
  /\ ~crashed
  /\ \/ UNCHANGED <<openLn, nListen>>
     \/ /\ openLn = {}
        /\ nListen < MaxListens
        /\ openLn' = openLn \cup {nListen + 1}
        /\ nListen' = nListen + 1
  /\ ret' = [op |-> "NewTestConnection", err |-> TRUE]
  /\ UNCHANGED <<listener, listening, servePc, serveLn, deferLn, closePc, sconn, spc, sread,
                 crashed>>
  /\ UNCHANGED sessionFrame

\* Start of session s, up to its first ReadLine
SessionBegin(s) ==
  /\ ~crashed
  /\ spc[s] = "start"
  /\ sconn' = [sconn EXCEPT ![s] = StartLoopTop(sconn[s]).c]
  /\ spc' = [spc EXCEPT ![s] = StartLoopTop(sconn[s]).pc]
  /\ UNCHANGED <<sread, crashed>>
  /\ UNCHANGED serverFrame
  /\ UNCHANGED sessionFrame

\* ReadLine of session s returns a line, which is dispatched; a panic of the
\* handler ends the process
SessionReadLine(s) ==
  /\ ~crashed
  /\ spc[s] = "ReadLine"
  /\ sread[s] < MaxSessionLines
  /\ \E req \in ServerLines(sread[s] + 1) :
       LET c1 == handleRequest(sconn[s], req) IN
         IF c1.panicked
           THEN /\ sconn' = [sconn EXCEPT ![s] = c1]
                /\ spc' = [spc EXCEPT ![s] = "panic"]
                /\ crashed' = TRUE
           ELSE /\ sconn' = [sconn EXCEPT ![s] = StartLoopTop(c1).c]
                /\ spc' = [spc EXCEPT ![s] = StartLoopTop(c1).pc]
                /\ UNCHANGED crashed
  /\ sread' = [sread EXCEPT ![s] = @ + 1]
  /\ UNCHANGED serverFrame
  /\ UNCHANGED sessionFrame

\* ReadLine of session s returns !ok: its client has closed the transport,
\* or Conn.Close was called on its Conn
SessionEOF(s) ==
  /\ ~crashed
  /\ spc[s] = "ReadLine"
  /\ sconn' = [sconn EXCEPT ![s].state = StateLoggedOut]
  /\ spc' = [spc EXCEPT ![s] = "returned"]
  /\ UNCHANGED <<sread, crashed>>
  /\ UNCHANGED serverFrame
  /\ UNCHANGED sessionFrame

ServerNext ==
  \/ ListenBegin
  \/ ListenEnd
  \/ ServeBegin
  \/ ServeCallAccept
  \/ ServeAccept
  \/ ServeAcceptError
  \/ CloseBegin
  \/ CloseEnd
  \/ TestStart
  \/ TestStartError
  \/ \E s \in Sessions : SessionBegin(s)
  \/ \E s \in Sessions : SessionReadLine(s)
  \/ \E s \in Sessions : SessionEOF(s)

\* the server process after NewServer; the single session of Spec is not
\* used
ServerSpecInit ==
  /\ ServerInit
  /\ conn = NewConn
  /\ pc = "returned"
  /\ sent = <<>>
  /\ closed = TRUE
  /\ nread = 0
  /\ responses = <<>>
  /\ RwcOpen
  /\ FnIdle
  /\ ReaderIdle

ServerSpec == ServerSpecInit /\ [][ServerNext]_vars

(***************************************************************************)
(* C12: a failure in one session, the invariant violation of an            *)
(* authenticated state without a user included, ends only that session:    *)
(* every other session that waits for a command still gets it dispatched.  *)
(***************************************************************************)
C12_FailureConfinedToSession ==
  servePc # "panic" =>
    \A s \in Sessions :
      (spc[s] = "ReadLine" /\ sread[s] < MaxSessionLines) => ENABLED SessionReadLine(s)

(***************************************************************************)
(* C20: Close called while Serve runs, at any point of the accept loop,    *)
(* never makes Serve fault on a missing listener: Serve leaves its loop    *)
(* only by returning an error; the sessions already started are left       *)
(* as they are; Listen while a listener exists and Close while none exists *)
(* return an error and leave the listener unchanged.                       *)
(***************************************************************************)
C20_ServeNeverFaults ==
  [][(servePc \in {"loop", "Accept"}) => servePc' # "panic"]_vars

C20_ServeReturnsError ==
  [][(servePc \in {"loop", "Accept"}) /\ servePc' = "returned" =>
       ret' = [op |-> "Serve", err |-> TRUE]]_vars

C20_SessionsLeftRunning ==
  [][closePc' # closePc \/ ((servePc \in {"loop", "Accept"}) /\ servePc' # servePc) =>
       \A s \in Sessions :
         spc[s] \in {"start", "ReadLine"} =>
           spc'[s] = spc[s] /\ sconn'[s] = sconn[s] /\ ~crashed']_vars

C20_ListenCloseErrors ==
  [][ret' # ret =>
       /\ ret'.op = "Listen" /\ listening' = listening /\ listener # NoListener =>
            ret'.err /\ listener' = listener
       /\ ret'.op = "Close" /\ listener = NoListener =>
            ret'.err /\ listener' = listener]_vars

C20_CloseDuringServe ==
  /\ C20_ServeNeverFaults
  /\ C20_ServeReturnsError
  /\ C20_SessionsLeftRunning
  /\ C20_ListenCloseErrors

(***************************************************************************)
(* Functions applied on their own: the argument is drawn from a bounded    *)
(* set, the function is applied once, and result holds what it returned    *)
(* (empty until then).  The session and the server do not run.             *)
(***************************************************************************)
RECURSIVE SeqsUpTo(_, _)
\* the sequences of at most n elements of S
SeqsUpTo(S, n) ==
  IF n = 0 THEN { <<>> }
  ELSE LET shorter == SeqsUpTo(S, n - 1)
       IN  shorter \cup { Append(q, x) : q \in { r \in shorter : Len(r) = n - 1 }, x \in S }

FnFrame == <<sessionVars, serverVars, readerVars>>

\* the session and the server at rest
AtRest ==
  /\ ServerInit
  /\ conn = NewConn
  /\ pc = "returned"
  /\ sent = <<>>
  /\ closed = TRUE
  /\ nread = 0
  /\ responses = <<>>
  /\ RwcOpen

FnSpecInit ==
  /\ AtRest
  /\ ReaderIdle
  /\ result = <<>>

(***************************************************************************)
(* writeResponse on its own.  A text is made of words, bare line feeds and *)
(* line endings.                                                           *)
(***************************************************************************)
ResponseTexts == SeqsUpTo({"OK", "\n", lineEnding}, MaxTextChunks)

WriteInit ==
  /\ FnSpecInit
  /\ arg \in [seq : {"", "a1"}, command : ResponseTexts]

\* c.writeResponse(seq, command) on a connection that has written nothing
WriteResponseCall ==
  /\ result = <<>>
  /\ result' = writeResponse(NewConn, arg.seq, arg.command).written
  /\ UNCHANGED arg
  /\ UNCHANGED FnFrame

WriteSpec == WriteInit /\ [][WriteResponseCall]_vars

\* the number of line endings in a text
LineEndings(text) == Cardinality({ i \in 1..Len(text) : text[i] = lineEnding })

(***************************************************************************)
(* C13: every call of writeResponse writes one line that ends with the     *)
(* line ending; the line ending is appended when the text does not end     *)
(* with it and is not appended when it does, so a text with no line ending *)
(* or with its only line ending at the end gives a line with exactly one;  *)
(* the tag is written as given, the empty tag as `*`.                      *)
(***************************************************************************)
C13_LineEndingExactlyOnce ==
  result # <<>> =>
    /\ Len(result) = 1
    /\ LET line == result[1]
           text == arg.command
           ended == Len(text) > 0 /\ text[Len(text)] = lineEnding
       IN  /\ line[Len(line)] = lineEnding
           /\ line[1] = (IF arg.seq = "" THEN "*" ELSE arg.seq)
           /\ Tail(line) = (IF ended THEN text ELSE text \o <<lineEnding>>)
           /\ LineEndings(line) = LineEndings(text) + (IF ended THEN 0 ELSE 1)
           /\ LineEndings(text) = (IF ended THEN 1 ELSE 0) =>
                LineEndings(line) = 1 /\ LineEndings(SubSeq(line, 1, Len(line) - 1)) = 0

\* a tagged response whose text came with its line ending was written
C13_Witness ==
  /\ result # <<>>
  /\ arg.seq = "a1"
  /\ arg.command = <<"OK", lineEnding>>

(***************************************************************************)
(* The sequence-number, range and set parser of package types, section     *)
(* 4.A of the specification.  A string is the sequence of its characters;  *)
(* a SequenceNumber is a string.                                           *)
(***************************************************************************)
Digits == {"0", "1", "2", "3", "4", "5", "6", "7", "8", "9"}

DigitValue(d) ==
  CASE d = "0" -> 0 [] d = "1" -> 1 [] d = "2" -> 2 [] d = "3" -> 3 [] d = "4" -> 4
    [] d = "5" -> 5 [] d = "6" -> 6 [] d = "7" -> 7 [] d = "8" -> 8 [] d = "9" -> 9

IsDecimal(str) == Len(str) > 0 /\ \A i \in 1..Len(str) : str[i] \in Digits

RECURSIVE Atoi(_)
Atoi(str) ==
  IF str = <<>> THEN 0
  ELSE 10 * Atoi(SubSeq(str, 1, Len(str) - 1)) + DigitValue(str[Len(str)])

\* SequenceNumber.Last, .Nil, .Value
Last(n) == n = <<"*">>

Nil(n) == n = <<>>

\* variant of Value for sensitivity checks: only the nil number is refused
Value_OnlyNilChecked(n) ==
  IF Nil(n) \/ (~Last(n) /\ ~IsDecimal(n))
    THEN [value |-> 0, err |-> TRUE]
    ELSE [value |-> IF Last(n) THEN 0 ELSE Atoi(n), err |-> FALSE]

Value(n) ==
  IF Last(n) \/ Nil(n) \/ ~IsDecimal(n)
    THEN [value |-> 0, err |-> TRUE]
    ELSE [value |-> Atoi(n), err |-> FALSE]

\* seq-number = 1*DIGIT / "*"
IsSeqNumber(str) == Last(str) \/ IsDecimal(str)

NoError == [kind |-> "nil", input |-> <<>>]

errInvalidRangeString(str) == [kind |-> "invalid range string", input |-> str]

errInvalidSequenceSetString(str) == [kind |-> "invalid sequence set string", input |-> str]

\* the position of the first occurrence of ch in str, 0 when there is none
IndexOf(str, ch) ==
  IF \E i \in 1..Len(str) : str[i] = ch
    THEN CHOOSE i \in 1..Len(str) : str[i] = ch /\ \A j \in 1..(i - 1) : str[j] # ch
    ELSE 0

\* variant of InterpretMessageRange for sensitivity checks: the two sides are
\* kept in the order of the input
InterpretMessageRange_NoSwap(str) ==
  LET colon == IndexOf(str, ":")
      first == IF colon = 0 THEN str ELSE SubSeq(str, 1, colon - 1)
      second == IF colon = 0 THEN <<>> ELSE SubSeq(str, colon + 1, Len(str))
  IN  IF ~IsSeqNumber(first) \/ (colon # 0 /\ ~IsSeqNumber(second))
        THEN [range |-> [Min |-> <<>>, Max |-> <<>>], err |-> errInvalidRangeString(str)]
        ELSE [range |-> [Min |-> first, Max |-> second], err |-> NoError]

InterpretMessageRange(str) ==
  LET colon == IndexOf(str, ":")
      first == IF colon = 0 THEN str ELSE SubSeq(str, 1, colon - 1)
      second == IF colon = 0 THEN <<>> ELSE SubSeq(str, colon + 1, Len(str))
  IN  IF ~IsSeqNumber(first) \/ (colon # 0 /\ ~IsSeqNumber(second))
        THEN [range |-> [Min |-> <<>>, Max |-> <<>>], err |-> errInvalidRangeString(str)]
        ELSE IF Last(first) /\ Last(second)
          THEN [range |-> [Min |-> first, Max |-> <<>>], err |-> NoError]
          ELSE IF Last(first) /\ ~Nil(second)
            THEN [range |-> [Min |-> second, Max |-> first], err |-> NoError]
            ELSE IF IsDecimal(first) /\ IsDecimal(second)
                      /\ Value(first).value > Value(second).value
              THEN [range |-> [Min |-> second, Max |-> first], err |-> NoError]
              ELSE [range |-> [Min |-> first, Max |-> second], err |-> NoError]

RECURSIVE Split(_, _)
\* strings.Split: the pieces of str between the separators
Split(str, sep) ==
  LET i == IndexOf(str, sep) IN
  IF i = 0 THEN << str >>
  ELSE << SubSeq(str, 1, i - 1) >> \o Split(SubSeq(str, i + 1, Len(str)), sep)

\* variant of InterpretSequenceSet for sensitivity checks: the elements that
\* do not parse are left out
InterpretSequenceSet_SkipInvalid(str) ==
  LET parts == Split(str, ",")
      parsed == [i \in 1..Len(parts) |-> InterpretMessageRange(parts[i])]
      valid == SelectSeq(parsed, LAMBDA r : r.err = NoError)
  IN  [set |-> [i \in 1..Len(valid) |-> valid[i].range], err |-> NoError]

InterpretSequenceSet(str) ==
  LET parts == Split(str, ",")
      parsed == [i \in 1..Len(parts) |-> InterpretMessageRange(parts[i])]
  IN  IF \E i \in 1..Len(parts) : parsed[i].err # NoError
        THEN [set |-> <<>>, err |-> errInvalidSequenceSetString(str)]
        ELSE [set |-> [i \in 1..Len(parts) |-> parsed[i].range], err |-> NoError]

(***************************************************************************)
(* The parser functions applied on their own to every string of at most    *)
(* MaxStringLen characters.                                                *)
(***************************************************************************)
ParseChars == {"1", "2", "*", ":", ",", "a"}

ParseStrings == SeqsUpTo(ParseChars, MaxStringLen)

ParseInit ==
  /\ FnSpecInit
  /\ arg \in ParseStrings

InterpretMessageRangeCall ==
  /\ result = <<>>
  /\ result' = << [fn |-> "InterpretMessageRange", ret |-> InterpretMessageRange(arg)] >>
  /\ UNCHANGED arg
  /\ UNCHANGED FnFrame

InterpretSequenceSetCall ==
  /\ result = <<>>
  /\ result' = << [fn |-> "InterpretSequenceSet", ret |-> InterpretSequenceSet(arg)] >>
  /\ UNCHANGED arg
  /\ UNCHANGED FnFrame

\* SequenceNumber(arg) and its three methods
SequenceNumberCall ==
  /\ result = <<>>
  /\ result' = << [fn |-> "SequenceNumber",
                   ret |-> [last |-> Last(arg), nil |-> Nil(arg), value |-> Value(arg)]] >>
  /\ UNCHANGED arg
  /\ UNCHANGED FnFrame

ParseNext ==
  \/ InterpretMessageRangeCall
  \/ InterpretSequenceSetCall
  \/ SequenceNumberCall

ParseSpec == ParseInit /\ [][ParseNext]_vars

\* the call of fn has returned
Returned(fn) == result # <<>> /\ result[1].fn = fn

\* the decimal strings that leave room for a second number in a range
Decimals == { d \in SeqsUpTo({"1", "2"}, MaxStringLen - 2) : d # <<>> }

\* the number a decimal string denotes
Number(d) ==
  LET RECURSIVE Sum(_)
      Sum(i) == IF i = 0 THEN 0 ELSE DigitValue(d[i]) * 10^(Len(d) - i) + Sum(i - 1)
  IN  Sum(Len(d))

Star == <<"*">>

(***************************************************************************)
(* C14: InterpretMessageRange returns the invalid-range error carrying the *)
(* input, or a range in canonical form: numeric sides with min <= max,     *)
(* `*:N` and `N:*` as {N, *}, `*:*` as {*, absent}, an input without `:`   *)
(* as {input, absent}; `*` is never the min of a numeric max.              *)
(***************************************************************************)
C14_RangeCanonical ==
  Returned("InterpretMessageRange") =>
    LET r == result[1].ret
        rng == r.range
    IN  \/ r.err = errInvalidRangeString(arg) /\ rng = [Min |-> <<>>, Max |-> <<>>]
        \/ /\ r.err = NoError
           /\ (\A i \in 1..Len(arg) : arg[i] # ":") => rng = [Min |-> arg, Max |-> <<>>]
           /\ arg = <<"*", ":", "*">> => rng = [Min |-> Star, Max |-> <<>>]
           /\ \A n \in Decimals :
                (arg = <<"*", ":">> \o n \/ arg = n \o <<":", "*">>) =>
                  rng = [Min |-> n, Max |-> Star]
           /\ \A n, k \in Decimals :
                arg = n \o <<":">> \o k =>
                  /\ rng \in {[Min |-> n, Max |-> k], [Min |-> k, Max |-> n]}
                  /\ Number(rng.Min) <= Number(rng.Max)
           /\ ~(rng.Min = Star /\ IsDecimal(rng.Max))

\* a reversed numeric pair was parsed
C14_Witness ==
  /\ Returned("InterpretMessageRange")
  /\ arg = <<"2", "1", ":", "1", "2">>
  /\ result[1].ret.range = [Min |-> <<"1", "2">>, Max |-> <<"2", "1">>]

\* the positions of the commas of the argument, and its k-th element
Commas == { i \in 1..Len(arg) : arg[i] = "," }

CommaAt(k) ==
  IF k = 0 THEN 0
  ELSE IF k > Cardinality(Commas) THEN Len(arg) + 1
  ELSE CHOOSE p \in Commas : Cardinality({ q \in Commas : q < p }) = k - 1

Element(k) == SubSeq(arg, CommaAt(k - 1) + 1, CommaAt(k) - 1)

(***************************************************************************)
(* C15: InterpretSequenceSet returns one range per element of the comma    *)
(* separated input, in input order, each the result of                     *)
(* InterpretMessageRange on that element, when every element parses; if    *)
(* an element is empty or does not parse it returns no range and the       *)
(* invalid-sequence-set error carrying the whole input.                    *)
(***************************************************************************)
C15_SetElementwise ==
  Returned("InterpretSequenceSet") =>
    LET r == result[1].ret
        n == Cardinality(Commas) + 1
    IN  IF \A k \in 1..n :
             Element(k) # <<>> /\ InterpretMessageRange(Element(k)).err = NoError
          THEN /\ r.err = NoError
               /\ Len(r.set) = n
               /\ \A k \in 1..n : r.set[k] = InterpretMessageRange(Element(k)).range
          ELSE /\ r.set = <<>>
               /\ r.err = errInvalidSequenceSetString(arg)

\* a set of three elements was parsed
C15_Witness ==
  /\ Returned("InterpretSequenceSet")
  /\ arg = <<"2", ",", "1", ",", "*">>
  /\ Len(result[1].ret.set) = 3

(***************************************************************************)
(* C16: a SequenceNumber is `*` (Last, not Nil, Value fails), empty (Nil,   *)
(* not Last, Value fails) or a decimal string (neither Last nor Nil, Value *)
(* is the integer it denotes, without error).                              *)
(***************************************************************************)
C16_SequenceNumberCases ==
  Returned("SequenceNumber") =>
    LET r == result[1].ret IN
      /\ arg = Star => r.last /\ ~r.nil /\ r.value.err
      /\ arg = <<>> => r.nil /\ ~r.last /\ r.value.err
      /\ IsDecimal(arg) =>
           ~r.last /\ ~r.nil /\ ~r.value.err /\ r.value.value = Number(arg)
      /\ Cardinality({ b \in {r.last, r.nil, ~r.value.err} : b }) <= 1

\* the three methods were called on `*`
C16_Witness ==
  /\ Returned("SequenceNumber")
  /\ arg = Star
  /\ result[1].ret.last

(***************************************************************************)
(* The line reader and the literal reader on one connection.  The client   *)
(* has sent a line, its line ending, a literal and the rest of the command *)
(* with its line ending, and has closed.  Every Read of the transport      *)
(* returns some non-empty prefix of the octets that are left, so the steps *)
(* cover every way the transport splits the stream.  The server reads the  *)
(* line with ReadLine, the literal with ReadFixedLength, then lines until  *)
(* the end of the stream.                                                  *)
(***************************************************************************)
CR == "\r"

LF == "\n"

\* the zero octet of a fresh buffer
NUL == "NUL"

ReaderInputs ==
  [line : {<<"a">>}, literal : SeqsUpTo({"x", "y"}, MaxLiteral), rest : {<<>>, <<"b">>}]

\* what the client writes to the connection
ClientStream(a) == a.line \o <<CR, LF>> \o a.literal \o a.rest \o <<CR, LF>>

ReaderFrame == <<sessionVars, serverVars, fnVars>>

\* Start has made the scanner over Rwc (conn.go:173) and nothing is read yet
ReaderInit ==
  /\ AtRest
  /\ result = <<>>
  /\ arg \in ReaderInputs
  /\ rwc = ClientStream(arg)
  /\ scanBuf = <<>>
  /\ rpc = "ReadLine"
  /\ lines = <<>>
  /\ data = <<>>
  /\ receivedLength = 0
  /\ rerr = nil

\* bufio.ScanLines: is there a full line in the buffer, where does it end,
\* and the line without its carriage return
HasLine(buf) == \E i \in 1..Len(buf) : buf[i] = LF

LineEnd(buf) == CHOOSE i \in 1..Len(buf) : buf[i] = LF /\ \A j \in 1..(i - 1) : buf[j] # LF

dropCR(d) == IF Len(d) > 0 /\ d[Len(d)] = CR THEN SubSeq(d, 1, Len(d) - 1) ELSE d

\* make([]byte, length)
make(length) == [i \in 1..length |-> NUL]

Min(a, b) == IF a < b THEN a ELSE b

\* what the server does once ReadLine has returned a line: the first line
\* announces the literal, which is read next into a fresh buffer
AfterLine ==
  IF lines = <<>>
    THEN /\ rpc' = "ReadFixedLength"
         /\ data' = make(Len(arg.literal))
         /\ receivedLength' = 0
    ELSE /\ rpc' = "ReadLine"
         /\ UNCHANGED <<data, receivedLength>>

\* Scan without a full line in its buffer: one Read of Rwc into the buffer
ScannerRead ==
  /\ rpc = "ReadLine"
  /\ ~HasLine(scanBuf)
  /\ rwc # <<>>
  /\ \E n \in 1..Len(rwc) :
       /\ scanBuf' = scanBuf \o SubSeq(rwc, 1, n)
       /\ rwc' = SubSeq(rwc, n + 1, Len(rwc))
  /\ UNCHANGED <<rpc, lines, data, receivedLength, rerr>>
  /\ UNCHANGED ReaderFrame

\* ReadLine returns the first line of the scanner's buffer
ReadLine ==
  /\ rpc = "ReadLine"
  /\ HasLine(scanBuf)
  /\ lines' = Append(lines, dropCR(SubSeq(scanBuf, 1, LineEnd(scanBuf) - 1)))
  /\ scanBuf' = SubSeq(scanBuf, LineEnd(scanBuf) + 1, Len(scanBuf))
  /\ AfterLine
  /\ UNCHANGED <<rwc, rerr>>
  /\ UNCHANGED ReaderFrame

\* ReadLine at the end of the stream: what is left in the buffer is the last
\* line, and with nothing left ok is false
ReadLineEOF ==
  /\ rpc = "ReadLine"
  /\ ~HasLine(scanBuf)
  /\ rwc = <<>>
  /\ IF scanBuf # <<>>
       THEN /\ lines' = Append(lines, dropCR(scanBuf))
            /\ scanBuf' = <<>>
            /\ AfterLine
       ELSE /\ rpc' = "done"
            /\ UNCHANGED <<lines, scanBuf, data, receivedLength>>
  /\ UNCHANGED <<rwc, rerr>>
  /\ UNCHANGED ReaderFrame

\* one turn of the loop of ReadFixedLength: c.Rwc.Read(data[receivedLength:])
ReadFixedLengthRead ==
  /\ rpc = "ReadFixedLength"
  /\ receivedLength < Len(data)
  /\ rwc # <<>>
  /\ \E bytesRead \in 1..Min(Len(data) - receivedLength, Len(rwc)) :
       /\ data' = [i \in 1..Len(data) |->
                     IF receivedLength < i /\ i <= receivedLength + bytesRead
                       THEN rwc[i - receivedLength]
                       ELSE data[i]]
       /\ rwc' = SubSeq(rwc, bytesRead + 1, Len(rwc))
       /\ receivedLength' = receivedLength + bytesRead
  /\ UNCHANGED <<scanBuf, rpc, lines, rerr>>
  /\ UNCHANGED ReaderFrame

\* the Read fails at the end of the stream: return data, err
ReadFixedLengthError ==
  /\ rpc = "ReadFixedLength"
  /\ receivedLength < Len(data)
  /\ rwc = <<>>
  /\ rerr' = "EOF"
  /\ rpc' = "ReadLine"
  /\ UNCHANGED <<rwc, scanBuf, lines, data, receivedLength>>
  /\ UNCHANGED ReaderFrame

\* the loop ends: return data, nil
ReadFixedLengthReturn ==
  /\ rpc = "ReadFixedLength"
  /\ receivedLength >= Len(data)
  /\ rpc' = "ReadLine"
  /\ UNCHANGED <<rwc, scanBuf, lines, data, receivedLength, rerr>>
  /\ UNCHANGED ReaderFrame

ReaderNext ==
  \/ ScannerRead
  \/ ReadLine
  \/ ReadLineEOF
  \/ ReadFixedLengthRead
  \/ ReadFixedLengthError
  \/ ReadFixedLengthReturn

ReaderSpec == ReaderInit /\ [][ReaderNext]_vars

(***************************************************************************)
(* C17: when the stream has been read to its end, ReadFixedLength has      *)
(* returned without error exactly the octets of the literal, the octets    *)
(* that follow the line ending of the first line, and the line read after  *)
(* it is the rest of the command, which starts right after the literal;    *)
(* this for every way the transport splits the stream into reads.          *)
(***************************************************************************)
C17_LiteralReadExactly ==
  rpc = "done" =>
    /\ rerr = nil
    /\ data = arg.literal
    /\ lines = <<arg.line, arg.rest>>

(***************************************************************************)
(* SplitParams on its own.  strings.FieldsFunc gives the characters to the *)
(* function one by one, in order, and the fields are the longest runs of   *)
(* characters for which it answered false.  The function of SplitParams    *)
(* keeps the flag paramsOpen between the characters.                       *)
(***************************************************************************)
\* the flag after the function has seen character r
paramsOpenAfter(paramsOpen, r) ==
  IF r = "[" THEN TRUE
  ELSE IF r = "]" THEN FALSE
  ELSE paramsOpen

\* the answer of the function for character r
IsSeparator(paramsOpen, r) == r = " " /\ ~paramsOpenAfter(paramsOpen, r)

RECURSIVE FieldsFuncFrom(_, _, _, _, _)
\* the fields of s from character i on: paramsOpen is the flag, fieldStart
\* the start of the field in progress (0 when there is none), fields the
\* fields already complete
FieldsFuncFrom(s, i, paramsOpen, fieldStart, fields) ==
  IF i > Len(s)
    THEN IF fieldStart > 0 THEN Append(fields, SubSeq(s, fieldStart, Len(s))) ELSE fields
    ELSE IF IsSeparator(paramsOpen, s[i])
      THEN FieldsFuncFrom(s, i + 1, paramsOpenAfter(paramsOpen, s[i]), 0,
                          IF fieldStart > 0
                            THEN Append(fields, SubSeq(s, fieldStart, i - 1))
                            ELSE fields)
      ELSE FieldsFuncFrom(s, i + 1, paramsOpenAfter(paramsOpen, s[i]),
                          IF fieldStart > 0 THEN fieldStart ELSE i, fields)

SplitParams(params) == FieldsFuncFrom(params, 1, FALSE, 0, <<>>)

ParamsChars == {"a", " ", "[", "]"}

SplitInit ==
  /\ FnSpecInit
  /\ arg \in SeqsUpTo(ParamsChars, MaxParamsLen)

SplitParamsCall ==
  /\ result = <<>>
  /\ result' = << SplitParams(arg) >>
  /\ UNCHANGED arg
  /\ UNCHANGED FnFrame

SplitSpec == SplitInit /\ [][SplitParamsCall]_vars

\* the number of brackets open before character i of the argument
Depth(i) ==
  Cardinality({ j \in 1..(i - 1) : arg[j] = "[" }) - Cardinality({ j \in 1..(i - 1) : arg[j] = "]" })

\* every closing bracket of the argument closes an open one and none is left
\* open
Balanced ==
  /\ \A i \in 1..(Len(arg) + 1) : Depth(i) >= 0
  /\ Depth(Len(arg) + 1) = 0

\* the spaces of the argument outside every bracketed region
OuterSpaces == { i \in 1..Len(arg) : arg[i] = " " /\ Depth(i) = 0 }

\* the longest runs of characters of the argument without an outer space
OuterRuns ==
  { r \in (1..Len(arg)) \X (1..Len(arg)) :
      /\ r[1] <= r[2]
      /\ \A i \in r[1]..r[2] : i \notin OuterSpaces
      /\ r[1] = 1 \/ (r[1] - 1) \in OuterSpaces
      /\ r[2] = Len(arg) \/ (r[2] + 1) \in OuterSpaces }

(***************************************************************************)
(* C18: on an argument with balanced brackets, SplitParams returns the     *)
(* runs of characters between the spaces outside every bracketed region,   *)
(* in order: it splits on no space inside brackets, nested or not, no      *)
(* token is empty, and the tokens are the argument without its outer       *)
(* spaces.                                                                 *)
(***************************************************************************)
C18_SplitRespectsNesting ==
  (result # <<>> /\ Balanced) =>
    LET tokens == result[1] IN
      /\ Len(tokens) = Cardinality(OuterRuns)
      /\ \A r \in OuterRuns :
           tokens[1 + Cardinality({ q \in OuterRuns : q[1] < r[1] })] = SubSeq(arg, r[1], r[2])
      /\ \A k \in 1..Len(tokens) : tokens[k] # <<>>

(***************************************************************************)
(* The dispatcher on its own, over registries in which several entries     *)
(* have the same pattern and different handlers.                           *)
(***************************************************************************)
RegistryEntries ==
  [match : {[verb |-> "LOGOUT", nargs |-> 0], [verb |-> "CLOSE", nargs |-> 0]},
   handler : {"cmdLogout", "cmdClose"}]

DispatchConns ==
  { SetState(NewConn, StateNotAuthenticated),
    SetReadWrite(SetState([NewConn EXCEPT !.User = "user", !.SelectedMailbox = "INBOX"],
                          StateSelected)) }

DispatchLines == { <<"a1", "LOGOUT">>, <<"a1", "CLOSE">>, <<"a1", "FOO">>, <<>> }

DispatchInit ==
  /\ FnSpecInit
  /\ arg \in [cmds : SeqsUpTo(RegistryEntries, MaxRegistry), c : DispatchConns, req : DispatchLines]

handleRequestCall ==
  /\ result = <<>>
  /\ result' = << handleRequestOver(arg.cmds, arg.c, arg.req) >>
  /\ UNCHANGED arg
  /\ UNCHANGED FnFrame

DispatchSpec == DispatchInit /\ [][handleRequestCall]_vars

\* the entries of the registry whose pattern matches the line
Matching == { i \in 1..Len(arg.cmds) : Len(FindStringSubmatch(arg.cmds[i].match, arg.req)) > 0 }

(***************************************************************************)
(* C19: for every line the dispatcher calls exactly one handler, the one   *)
(* of the first entry in registration order whose pattern matches, with    *)
(* the captures of that pattern, and leaves the connection as that handler *)
(* leaves it; when no pattern matches it calls no handler and writes       *)
(* exactly one response, a BAD.                                            *)
(***************************************************************************)
C19_FirstMatchWins ==
  result # <<>> =>
    LET r == result[1] IN
      IF Matching = {}
        THEN /\ r.calls = <<>>
             /\ Len(r.c.written) = Len(arg.c.written) + 1
             /\ r.c.written[Len(r.c.written)][2] = "BAD Command not understood"
             /\ r.c = [arg.c EXCEPT !.written = r.c.written]
        ELSE \E first \in Matching :
               /\ \A j \in Matching : first <= j
               /\ r.calls = << [handler |-> arg.cmds[first].handler,
                                matches |-> FindStringSubmatch(arg.cmds[first].match, arg.req)] >>
               /\ r.c = CallHandler(arg.cmds[first].handler, r.calls[1].matches, arg.c)

\* two entries match the line, the first names another handler than the
\* second, and the handler of the first was called
C19_Witness ==
  /\ result # <<>>
  /\ arg.req = <<"a1", "LOGOUT">>
  /\ Len(arg.cmds) = 3
  /\ Matching = {2, 3}
  /\ arg.cmds[2].handler = "cmdClose"
  /\ arg.cmds[3].handler = "cmdLogout"
  /\ result[1].calls[1].handler = "cmdClose"

====
